---- MODULE Spec2Model ----
(***************************************************************************)
(* Model of the phone-number dictionary generator (src/main.go): the       *)
(* interactive driver (main, selectMiddleCodes, askToContinue), the        *)
(* middle-code source (loadConfig, inputMiddleCodes) and the generator     *)
(* (generatePhoneNumbers) with its buffered writer.                        *)
(*                                                                         *)
(* Strings are sequences of one-character strings, so that trimming,       *)
(* splitting, pattern matching, zero padding and concatenation are         *)
(* computed character by character.                                        *)
(***************************************************************************)
EXTENDS Integers, Sequences, FiniteSets, TLC

(* ------------------------------ bounds -------------------------------- *)

\* Number of suffixes enumerated per (prefix, middle code) pair; the code
\* uses 10000 (main.go:213), the model a small value.
SuffixCount == 3

\* Capacity in bytes of the bufio.Writer buffer; the library uses 4096, the
\* model a value smaller than one flush period so that the buffer fills.
BufSize == 30

\* Largest number of comma-separated tokens in a manual input line.
MaxTokens == 3

(* ------------------------------ strings ------------------------------- *)

Digit == {"0", "1", "2", "3", "4", "5", "6", "7", "8", "9"}

Space == {" ", "\t"}

\* strings.TrimSpace
RECURSIVE TrimLeft(_)
TrimLeft(s) ==
    IF s # <<>> /\ Head(s) \in Space THEN TrimLeft(Tail(s)) ELSE s

RECURSIVE TrimRight(_)
TrimRight(s) ==
    IF s # <<>> /\ s[Len(s)] \in Space
    THEN TrimRight(SubSeq(s, 1, Len(s) - 1))
    ELSE s

TrimSpace(s) == TrimRight(TrimLeft(s))

\* strings.Split(s, ","): the pieces between the commas, empty ones kept.
RECURSIVE SplitFrom(_, _)
SplitFrom(s, cur) ==
    IF s = <<>> THEN << cur >>
    ELSE IF Head(s) = "," THEN << cur >> \o SplitFrom(Tail(s), <<>>)
    ELSE SplitFrom(Tail(s), Append(cur, Head(s)))

Split(s) == SplitFrom(s, <<>>)

\* regexp `^\d{4}$`.MatchString
validRegexMatch(s) ==
    /\ Len(s) = 4
    /\ \A i \in 1..Len(s) : s[i] \in Digit

\* fmt.Sprintf("%04d", n) for n >= 0
DigitChar(d) ==
    CASE d = 0 -> "0" [] d = 1 -> "1" [] d = 2 -> "2" [] d = 3 -> "3"
      [] d = 4 -> "4" [] d = 5 -> "5" [] d = 6 -> "6" [] d = 7 -> "7"
      [] d = 8 -> "8" [] d = 9 -> "9"

RECURSIVE Decimal(_)
Decimal(n) ==
    IF n < 10 THEN << DigitChar(n) >>
    ELSE Append(Decimal(n \div 10), DigitChar(n % 10))

RECURSIVE ZeroPad(_, _)
ZeroPad(s, width) ==
    IF Len(s) >= width THEN s ELSE ZeroPad(<< "0" >> \o s, width)

\* Mutation: "%d" in place of "%04d".
Sprintf04dUnpadded(n) == Decimal(n)

Sprintf04d(n) == ZeroPad(Decimal(n), 4)

(* --------------------------- prefix table ------------------------------ *)

crawledMobile ==
    <<
       <<"1", "3", "4">>, <<"1", "3", "5">>, <<"1", "3", "6">>, <<"1", "3", "7">>,
       <<"1", "3", "8">>, <<"1", "3", "9">>, <<"1", "4", "7">>, <<"1", "5", "0">>,
       <<"1", "5", "1">>, <<"1", "5", "2">>, <<"1", "5", "7">>, <<"1", "5", "8">>,
       <<"1", "5", "9">>, <<"1", "7", "8">>, <<"1", "8", "2">>, <<"1", "8", "3">>,
       <<"1", "8", "4">>, <<"1", "8", "7">>, <<"1", "8", "8">>, <<"1", "9", "8">> >>

crawledUnicom ==
    <<
       <<"1", "3", "0">>, <<"1", "3", "1">>, <<"1", "3", "2">>, <<"1", "4", "5">>,
       <<"1", "5", "5">>, <<"1", "5", "6">>, <<"1", "6", "6">>, <<"1", "7", "5">>,
       <<"1", "7", "6">>, <<"1", "8", "5">>, <<"1", "8", "6">> >>

crawledTelecom ==
    <<
       <<"1", "3", "3">>, <<"1", "4", "9">>, <<"1", "5", "3">>, <<"1", "7", "3">>,
       <<"1", "7", "7">>, <<"1", "8", "0">>, <<"1", "8", "1">>, <<"1", "8", "9">>,
       <<"1", "9", "9">> >>

\* Mutation: the Unicom prefixes are left out of the merge.
allSegmentsNoUnicom == crawledMobile \o crawledTelecom

\* append(append(crawledMobile, crawledUnicom...), crawledTelecom...)
allSegments == crawledMobile \o crawledUnicom \o crawledTelecom

(* --------------------------- config.json ------------------------------- *)

\* A JSON scalar or array as the decoder sees it.
JStr(s) == [t |-> "string", s |-> s, n |-> 0]
JNum(n) == [t |-> "number", s |-> <<>>, n |-> n]
JNull == [t |-> "null", s |-> <<>>, n |-> 0]
\* The value of an object member: its JSON type and, for an array, its
\* elements.
JArr(elems) == [t |-> "array", elems |-> elems]
JNotArr(type) == [t |-> type, elems |-> <<>>]

\* The content of config.json: whether it exists, whether its first value
\* is well-formed JSON, whether that value is an object, and the object's
\* members in file order.
NoFile == [exists |-> FALSE, syntaxOK |-> FALSE, top |-> "none", members |-> <<>>]
Garbage == [exists |-> TRUE, syntaxOK |-> FALSE, top |-> "none", members |-> <<>>]
JObject(members) ==
    [exists |-> TRUE, syntaxOK |-> TRUE, top |-> "object", members |-> members]
JTopArray == [exists |-> TRUE, syntaxOK |-> TRUE, top |-> "array", members |-> <<>>]
Member(name, val) == [name |-> name, val |-> val]

\* Config{MiddleCodes: []string{"0537", "0100", "0210", "0755"}}
defaultConfig ==
    << <<"0", "5", "3", "7">>, <<"0", "1", "0", "0">>,
       <<"0", "2", "1", "0">>, <<"0", "7", "5", "5">> >>

\* Mutation: the field is not exported to JSON, and "{}" is written.
MarshalIndentNoField(codes) == JObject(<<>>)

\* json.MarshalIndent(Config{MiddleCodes: codes}, "", "  ")
MarshalIndent(codes) ==
    JObject(<< Member("middleCodes",
                      JArr([i \in 1..Len(codes) |-> JStr(codes[i])])) >>)

\* encoding/json matches an object key to the field tagged "middleCodes"
\* ignoring case.
FoldsToMiddleCodes(name) ==
    name \in {"middleCodes", "MiddleCodes", "middlecodes", "MIDDLECODES"}

\* Decoding one member into the Config under construction: a string element
\* is stored, a null element leaves the zero value "", any other element is
\* a type error; a null value leaves the field alone; a value that is not
\* an array is a type error; an unknown key is skipped.
DecodeMember(acc, m) ==
    IF ~FoldsToMiddleCodes(m.name) THEN acc
    ELSE IF m.val.t = "null" THEN acc
    ELSE IF m.val.t # "array" THEN [acc EXCEPT !.err = TRUE]
    ELSE [err |-> acc.err \/ \E i \in 1..Len(m.val.elems) :
                                 m.val.elems[i].t \notin {"string", "null"},
          MiddleCodes |->
              [i \in 1..Len(m.val.elems) |->
                  IF m.val.elems[i].t = "string" THEN m.val.elems[i].s
                  ELSE <<>>]]

RECURSIVE DecodeMembers(_, _)
DecodeMembers(acc, ms) ==
    IF ms = <<>> THEN acc
    ELSE DecodeMembers(DecodeMember(acc, Head(ms)), Tail(ms))

\* json.NewDecoder(file).Decode(&config)
Decode(file) ==
    IF ~file.syntaxOK \/ file.top # "object"
    THEN [err |-> TRUE, MiddleCodes |-> <<>>]
    ELSE DecodeMembers([err |-> FALSE, MiddleCodes |-> <<>>], file.members)

\* Mutation: the validation loop stops at the first invalid entry.
RECURSIVE FilterValidUntilInvalid(_)
FilterValidUntilInvalid(codes) ==
    IF codes = <<>> THEN <<>>
    ELSE IF validRegexMatch(Head(codes))
         THEN << Head(codes) >> \o FilterValidUntilInvalid(Tail(codes))
         ELSE <<>>

\* The validation loop of loadConfig: the entries matching the pattern, in
\* order.
RECURSIVE FilterValid(_)
FilterValid(codes) ==
    IF codes = <<>> THEN <<>>
    ELSE IF validRegexMatch(Head(codes))
         THEN << Head(codes) >> \o FilterValid(Tail(codes))
         ELSE FilterValid(Tail(codes))

\* The files a failed os.WriteFile can leave behind: none, or a truncated
\* one.
FailedWriteLeaves == {NoFile, Garbage}

\* loadConfig under an I/O fault ("none", "stat", "open", "write") and, for
\* a failed write, the file it leaves: the error message ("" for nil), the
\* returned Config and the file afterwards.
loadConfig(file, fault, left) ==
    IF fault = "stat"
    THEN [err |-> "failed to check status", MiddleCodes |-> <<>>, file |-> file]
    ELSE IF ~file.exists
    THEN IF fault = "write"
         THEN [err |-> "failed to create", MiddleCodes |-> <<>>, file |-> left]
         ELSE [err |-> "", MiddleCodes |-> defaultConfig,
               file |-> MarshalIndent(defaultConfig)]
    ELSE IF fault = "open"
    THEN [err |-> "failed to open", MiddleCodes |-> <<>>, file |-> file]
    ELSE LET d == Decode(file) IN
         IF d.err
         THEN [err |-> "failed to parse", MiddleCodes |-> <<>>, file |-> file]
         ELSE [err |-> "", MiddleCodes |-> FilterValid(d.MiddleCodes),
               file |-> file]

(* --------------------------- manual input ------------------------------ *)

\* Mutation: the seen map is not consulted.
RECURSIVE CollectCodesNoSeen(_, _, _)
CollectCodesNoSeen(rawCodes, validCodes, seen) ==
    IF rawCodes = <<>> THEN validCodes
    ELSE LET code == TrimSpace(Head(rawCodes)) IN
         IF validRegexMatch(code)
         THEN CollectCodesNoSeen(Tail(rawCodes), Append(validCodes, code), seen)
         ELSE CollectCodesNoSeen(Tail(rawCodes), validCodes, seen)

\* The loop of inputMiddleCodes over rawCodes: a trimmed token is appended
\* when it matches the pattern and has not been seen.
RECURSIVE CollectCodes(_, _, _)
CollectCodes(rawCodes, validCodes, seen) ==
    IF rawCodes = <<>> THEN validCodes
    ELSE LET code == TrimSpace(Head(rawCodes)) IN
         IF validRegexMatch(code) /\ code \notin seen
         THEN CollectCodes(Tail(rawCodes), Append(validCodes, code),
                           seen \cup {code})
         ELSE CollectCodes(Tail(rawCodes), validCodes, seen)

\* Mutation: the check for an empty result is missing.
inputMiddleCodesNoEmptyCheck(line) ==
    LET input == TrimSpace(line) IN
    IF input = <<>>
    THEN [err |-> "input cannot be empty", codes |-> <<>>]
    ELSE [err |-> "", codes |-> CollectCodes(Split(input), <<>>, {})]

\* inputMiddleCodes on the console line the scanner read.
inputMiddleCodes(line) ==
    LET input == TrimSpace(line) IN
    IF input = <<>>
    THEN [err |-> "input cannot be empty", codes |-> <<>>]
    ELSE LET validCodes == CollectCodes(Split(input), <<>>, {}) IN
         IF Len(validCodes) = 0
         THEN [err |-> "no valid middle codes detected", codes |-> <<>>]
         ELSE [err |-> "", codes |-> validCodes]

(* --------------------------- bufio.Writer ------------------------------ *)

\* The byte counts an os.File.Write that fails may have written before the
\* error.
ShortWrites == {0, 7}

\* (*bufio.Writer).Flush on writer w over file content f: the possible
\* results.  A sticky error or an empty buffer writes nothing; otherwise
\* the buffer is written to the file, and a failed write keeps the unwritten
\* bytes and sets the sticky error.  A write to a closed file fails.
Flush(w, f, open) ==
    IF w.err \/ w.buf = <<>>
    THEN {[w |-> w, f |-> f, failed |-> FALSE]}
    ELSE (IF open
          THEN {[w |-> [buf |-> <<>>, err |-> FALSE], f |-> f \o w.buf,
                 failed |-> FALSE]}
          ELSE {})
         \cup
         {[w |-> [buf |-> SubSeq(w.buf, n + 1, Len(w.buf)), err |-> TRUE],
           f |-> f \o SubSeq(w.buf, 1, n),
           failed |-> TRUE] :
             n \in {k \in ShortWrites : k < Len(w.buf) /\ (open \/ k = 0)}}

\* (*bufio.Writer).WriteString(s): while s does not fit and no error is
\* set, fill the buffer and flush; then report the sticky error or copy
\* the rest of s into the buffer.  failed records whether a file write
\* failed on the way.
RECURSIVE WriteString(_, _, _, _)
WriteString(w, f, s, failed) ==
    IF Len(s) > BufSize - Len(w.buf) /\ ~w.err
    THEN LET n == BufSize - Len(w.buf)
             filled == [w EXCEPT !.buf = @ \o SubSeq(s, 1, n)]
         IN UNION { WriteString(o.w, o.f, SubSeq(s, n + 1, Len(s)),
                                failed \/ o.failed) :
                        o \in Flush(filled, f, TRUE) }
    ELSE IF w.err
    THEN {[w |-> w, f |-> f, failed |-> failed, err |-> TRUE]}
    ELSE {[w |-> [w EXCEPT !.buf = @ \o s], f |-> f, failed |-> failed,
           err |-> FALSE]}

NewWriter == [buf |-> <<>>, err |-> FALSE]

(* ------------------------------- state --------------------------------- *)

VARIABLES
    pc,              \* where the driver is: "select", "create", "loop",
                     \* "ask" or "exited"
    scanned,         \* scanner.Text(): the console line read last
    choice,          \* selectMiddleCodes's choice: the trimmed option read last
    lastOutput,      \* the message printed last
    lastErr,         \* the error that message reports ("" when none)
    configFile,      \* config.json
    middleCodes,     \* main's middleCodes
    phoneExists,     \* whether phonedict.txt exists
    phoneData,       \* the bytes of phonedict.txt
    openHandles,     \* open handles on phonedict.txt
    writer,          \* the bufio.Writer of the running generatePhoneNumbers
    deferStack,      \* its deferred calls, in the order deferred
    deferLog,        \* the deferred calls run at its return, in order
    segIdx,          \* position of its loops: index into allSegments,
    midIdx,          \*   index into middleCodes,
    suffix,          \*   suffix
    generatedCount,  \* its generatedCount
    printedEstimate, \* the "Estimated total" it printed
    printedActual,   \* the "Actual total" it printed (-1: not printed)
    genErr,          \* the error it returned ("" for nil)
    writeFailed      \* whether a write to phonedict.txt failed during it

vars ==
    << pc, scanned, choice, lastOutput, lastErr, configFile, middleCodes,
       phoneExists, phoneData, openHandles, writer, deferStack, deferLog, segIdx, midIdx,
       suffix, generatedCount, printedEstimate, printedActual, genErr,
       writeFailed >>

genLocals == << writer, deferStack, segIdx, midIdx, suffix, generatedCount >>

genReport == << deferLog, printedEstimate, printedActual, genErr, writeFailed >>

phoneFile == << phoneExists, phoneData, openHandles >>

(* ------------------------------ inputs --------------------------------- *)

c0537 == <<"0", "5", "3", "7">>
c0100 == <<"0", "1", "0", "0">>
c0210 == <<"0", "2", "1", "0">>

\* {"middleCodes": ["0537", "0537"]}
DuplicateConfig ==
    JObject(<< Member("middleCodes", JArr(<< JStr(c0537), JStr(c0537) >>)) >>)

\* The contents config.json may have when the driver starts.
DriverConfigs == { NoFile, Garbage, DuplicateConfig }

\* The contents config.json may have when loadConfig is called.
ConfigFiles ==
    DriverConfigs \cup
    { JTopArray,
      JObject(<<>>),
      JObject(<< Member("middleCodes", JArr(<<>>)) >>),
      JObject(<< Member("middleCodes", JNotArr("null")) >>),
      JObject(<< Member("middleCodes", JNotArr("string")) >>),
      JObject(<< Member("middleCodes",
                        JArr(<< JStr(<<"5", "3", "7">>), JStr(c0100),
                                JStr(<<"0", "5", "a", "7">>) >>)) >>),
      JObject(<< Member("middleCodes",
                        JArr(<< JStr(<<"0", "5", "3", "7", "7">>), JNull >>)) >>),
      JObject(<< Member("middleCodes", JArr(<< JNum(1234), JStr(c0100) >>)) >>),
      JObject(<< Member("middleCodes", JNotArr("number")) >>),
      MarshalIndent(defaultConfig),
      JObject(<< Member("middleCodes", JArr(<< JStr(c0210) >>)) >>),
      JObject(<< Member("middleCodes", JArr(<< JStr(c0100), JStr(c0537) >>)) >>),
      JObject(<< Member("middleCodes",
                        JArr(<< JStr(c0537), JStr(c0100), JStr(c0537) >>)) >>),
      JObject(<< Member("middleCodes", JArr(<< JStr(<<" ">> \o c0537) >>)) >>),
      JObject(<< Member("middleCodes",
                        JArr(<< JStr(<<"1", "2", "3", "4", "5">>),
                                JStr(<<"1", "2", "3", "4">>) >>)) >>),
      JObject(<< Member("middleCodes",
                        JArr(<< JStr(<<"a", "b", "c", "d">>), JStr(<<>>) >>)) >>),
      JObject(<< Member("middleCodes", JArr(<< JStr(c0537) >>)),
                 Member("middleCodes", JArr(<< JStr(c0100), JStr(c0210) >>)) >>),
      JObject(<< Member("middlecodes", JArr(<< JStr(c0210) >>)),
                 Member("codes", JArr(<< JStr(c0100) >>)) >>),
      JObject(<< Member("comment", JNotArr("string")),
                 Member("MiddleCodes", JArr(<< JStr(c0210), JStr(c0100) >>)) >>) }

\* Answers to "Enter option (1/2): ".
Choices == { <<"1">>, <<"2", " ">>, <<"3">> }

\* "0537,0100,0537, 0210"
ExampleLine ==
    c0537 \o <<",">> \o c0100 \o <<",">> \o c0537 \o <<",", " ">> \o c0210

\* Answers to the middle-code prompt in the driver.
DriverLines ==
    { <<" ">>,
      <<"5", "3", "7", ",", "0", "5", "a", "7">>,
      c0537 \o <<",", " ">> \o c0100 \o <<",">> \o c0537 }

\* Tokens of which the manual input lines are built.
RawTokens ==
    { c0537, <<" ">> \o c0210, c0100 \o <<" ">>, <<"5", "3", "7">>,
      <<"0", "5", "a", "7">>, <<"0", "5", "3", "7", "7">>, <<>>, <<" ">> }

RECURSIVE Join(_)
Join(tokens) ==
    IF Len(tokens) = 1 THEN tokens[1]
    ELSE tokens[1] \o <<",">> \o Join(Tail(tokens))

\* Every line of 1..MaxTokens tokens, and the driver's lines.
ManualLines ==
    DriverLines \cup { <<>>, ExampleLine } \cup
    { Join(ts) : ts \in UNION { [1..n -> RawTokens] : n \in 1..MaxTokens } }

\* Answers to "Exit program? (y/n ...)".
Answers == { <<"y">>, <<" ", "Y">>, <<"n">>, <<"N", " ">>, <<"x">> }

\* What an earlier run left in phonedict.txt.
StaleData == <<"1", "3", "4", "\n">>

Faults == {"none", "stat", "open", "write"}

(* ------------------------------ actions -------------------------------- *)

InitWith(configs) ==
    /\ pc = "select"
    /\ scanned = <<>>
    /\ choice = <<>>
    /\ lastOutput = "Please select 4-digit middle code input method:"
    /\ lastErr = ""
    /\ configFile \in configs
    /\ middleCodes = <<>>
    /\ phoneExists \in BOOLEAN
    /\ phoneData = (IF phoneExists THEN StaleData ELSE <<>>)
    /\ openHandles = 0
    /\ writer = NewWriter
    /\ deferStack = <<>>
    /\ deferLog = <<>>
    /\ segIdx = 0
    /\ midIdx = 0
    /\ suffix = 0
    /\ generatedCount = 0
    /\ printedEstimate = -1
    /\ printedActual = -1
    /\ genErr = ""
    /\ writeFailed = FALSE

\* The driver starts at the input-method prompt.
Init == InitWith(DriverConfigs)

\* One iteration of the loop of selectMiddleCodes, option 1: loadConfig,
\* the fallback to ["0537"], and the return to main, which goes on to
\* generatePhoneNumbers.
SelectConfig(option, fault, left) ==
    /\ pc = "select"
    /\ TrimSpace(option) = <<"1">>
    /\ scanned' = option
    /\ choice' = TrimSpace(option)
    /\ LET r == loadConfig(configFile, fault, left) IN
       /\ configFile' = r.file
       /\ IF r.err # ""
          THEN /\ lastOutput' = "Config file processing failed"
               /\ lastErr' = r.err
               /\ UNCHANGED << pc, middleCodes >>
          ELSE /\ middleCodes' = IF Len(r.MiddleCodes) = 0
                                 THEN << c0537 >>
                                 ELSE r.MiddleCodes
               /\ lastOutput' = "Successfully read from config file"
               /\ lastErr' = ""
               /\ pc' = "create"
    /\ UNCHANGED << phoneFile, genLocals, genReport >>

\* One iteration of the loop of selectMiddleCodes, option 2:
\* inputMiddleCodes on the next console line.
SelectManual(option, line) ==
    /\ pc = "select"
    /\ TrimSpace(option) = <<"2">>
    /\ scanned' = line
    /\ choice' = TrimSpace(option)
    /\ LET r == inputMiddleCodes(line) IN
       IF r.err # ""
       THEN /\ lastOutput' = "Input error"
            /\ lastErr' = r.err
            /\ UNCHANGED << pc, middleCodes >>
       ELSE /\ middleCodes' = r.codes
            /\ lastOutput' = "Manual input successful"
            /\ lastErr' = ""
            /\ pc' = "create"
    /\ UNCHANGED << configFile, phoneFile, genLocals, genReport >>

\* One iteration of the loop of selectMiddleCodes, any other answer.
SelectInvalid(option) ==
    /\ pc = "select"
    /\ TrimSpace(option) \notin { <<"1">>, <<"2">> }
    /\ scanned' = option
    /\ choice' = TrimSpace(option)
    /\ lastOutput' = "Invalid option, please enter 1 or 2"
    /\ lastErr' = ""
    /\ UNCHANGED << pc, configFile, middleCodes, phoneFile, genLocals,
                    genReport >>

\* The flush period of the generation loop; the code uses the same literal
\* 10000 as for the suffix range (main.go:220).
FlushEvery == SuffixCount

\* Mutation: the deferred calls run first deferred first.
RECURSIVE RunDeferredFifo(_, _)
RunDeferredFifo(stack, st) ==
    IF stack = <<>> THEN {st}
    ELSE LET call == Head(stack)
             rest == Tail(stack)
         IN IF call = "writer.Flush"
            THEN UNION { RunDeferredFifo(rest,
                             [st EXCEPT !.w = o.w, !.f = o.f,
                                        !.failed = @ \/ o.failed,
                                        !.log = Append(@, call)]) :
                         o \in Flush(st.w, st.f, st.open > 0) }
            ELSE RunDeferredFifo(rest, [st EXCEPT !.open = @ - 1,
                                                  !.log = Append(@, call)])

\* The deferred calls of generatePhoneNumbers run at its return, last
\* deferred first, from state st (writer, file content, whether a write
\* failed, open handles, calls run so far): the possible final states.
RECURSIVE RunDeferred(_, _)
RunDeferred(stack, st) ==
    IF stack = <<>> THEN {st}
    ELSE LET call == stack[Len(stack)]
             rest == SubSeq(stack, 1, Len(stack) - 1)
         IN IF call = "writer.Flush"
            THEN UNION { RunDeferred(rest,
                             [st EXCEPT !.w = o.w, !.f = o.f,
                                        !.failed = @ \/ o.failed,
                                        !.log = Append(@, call)]) :
                         o \in Flush(st.w, st.f, st.open > 0) }
            ELSE RunDeferred(rest, [st EXCEPT !.open = @ - 1,
                                              !.log = Append(@, call)])

\* Mutation: main returns when the generation failed.
ReturnExitOnError(err, w, f, failed) ==
    \E st \in RunDeferred(deferStack,
                          [w |-> w, f |-> f, failed |-> failed,
                           open |-> openHandles, log |-> <<>>]) :
        /\ phoneData' = st.f
        /\ openHandles' = st.open
        /\ deferLog' = st.log
        /\ writeFailed' = st.failed
        /\ genErr' = err
        /\ lastOutput' = IF err # ""
                         THEN "Phone number generation failed"
                         ELSE "Phone numbers have been successfully exported"
        /\ lastErr' = err
        /\ writer' = NewWriter
        /\ deferStack' = <<>>
        /\ segIdx' = 0
        /\ midIdx' = 0
        /\ suffix' = 0
        /\ generatedCount' = 0
        /\ pc' = IF err # "" THEN "exited" ELSE "ask"

\* The return of generatePhoneNumbers with error err (its deferred calls
\* included) and main's report of the result; main goes on to
\* askToContinue.
Return(err, w, f, failed) ==
    \E st \in RunDeferred(deferStack,
                          [w |-> w, f |-> f, failed |-> failed,
                           open |-> openHandles, log |-> <<>>]) :
        /\ phoneData' = st.f
        /\ openHandles' = st.open
        /\ deferLog' = st.log
        /\ writeFailed' = st.failed
        /\ genErr' = err
        /\ lastOutput' = IF err # ""
                         THEN "Phone number generation failed"
                         ELSE "Phone numbers have been successfully exported"
        /\ lastErr' = err
        /\ writer' = NewWriter
        /\ deferStack' = <<>>
        /\ segIdx' = 0
        /\ midIdx' = 0
        /\ suffix' = 0
        /\ generatedCount' = 0
        /\ pc' = "ask"

\* The start of generatePhoneNumbers: os.Create, the two defers, the
\* totals and the "Estimated total" message; or the failure of os.Create.
GenCreate(ok) ==
    /\ pc = "create"
    /\ IF ok
       THEN /\ phoneExists' = TRUE
            /\ phoneData' = <<>>
            /\ openHandles' = openHandles + 1
            /\ deferStack' = << "file.Close", "writer.Flush" >>
            /\ writer' = NewWriter
            /\ printedEstimate' =
                   Len(allSegments) * Len(middleCodes) * SuffixCount
            /\ printedActual' = -1
            /\ generatedCount' = 0
            /\ segIdx' = 1
            /\ midIdx' = 1
            /\ suffix' = 0
            /\ deferLog' = <<>>
            /\ genErr' = ""
            /\ writeFailed' = FALSE
            /\ lastOutput' = "Estimated total numbers to generate"
            /\ lastErr' = ""
            /\ pc' = "loop"
       ELSE /\ genErr' = "failed to create file"
            /\ deferLog' = <<>>
            /\ printedEstimate' = -1
            /\ printedActual' = -1
            /\ writeFailed' = FALSE
            /\ lastOutput' = "Phone number generation failed"
            /\ lastErr' = "failed to create file"
            /\ pc' = "ask"
            /\ UNCHANGED << phoneFile, genLocals >>
    /\ UNCHANGED << scanned, choice, configFile, middleCodes >>

\* Whether the three nested loops have an iteration left.
HasNext == segIdx <= Len(allSegments) /\ midIdx <= Len(middleCodes)

\* One iteration of the innermost loop: format and write one number, count
\* it, flush every FlushEvery numbers (the result of that flush is not
\* looked at), and step the loops; or return the write error.
GenWrite ==
    /\ pc = "loop"
    /\ HasNext
    /\ LET suffixStr == Sprintf04d(suffix)
           phone == allSegments[segIdx] \o middleCodes[midIdx] \o suffixStr
       IN \E o \in WriteString(writer, phoneData, phone \o << "\n" >>, FALSE) :
            IF o.err
            THEN /\ Return("failed to write to file", o.w, o.f,
                           writeFailed \/ o.failed)
                 /\ UNCHANGED << phoneExists, printedEstimate, printedActual >>
            ELSE /\ generatedCount' = generatedCount + 1
                 /\ IF generatedCount' % FlushEvery = 0
                    THEN \E fl \in Flush(o.w, o.f, TRUE) :
                            /\ writer' = fl.w
                            /\ phoneData' = fl.f
                            /\ writeFailed' =
                                   (writeFailed \/ o.failed \/ fl.failed)
                            /\ lastOutput' = "Generated: progress"
                            /\ lastErr' = ""
                    ELSE /\ writer' = o.w
                         /\ phoneData' = o.f
                         /\ writeFailed' = (writeFailed \/ o.failed)
                         /\ UNCHANGED << lastOutput, lastErr >>
                 /\ IF suffix + 1 < SuffixCount
                    THEN /\ suffix' = suffix + 1
                         /\ UNCHANGED << segIdx, midIdx >>
                    ELSE /\ suffix' = 0
                         /\ IF midIdx + 1 <= Len(middleCodes)
                            THEN /\ midIdx' = midIdx + 1
                                 /\ UNCHANGED segIdx
                            ELSE /\ midIdx' = 1
                                 /\ segIdx' = segIdx + 1
                 /\ UNCHANGED << pc, phoneExists, openHandles, deferStack,
                                 deferLog, printedEstimate, printedActual,
                                 genErr >>
    /\ UNCHANGED << scanned, choice, configFile, middleCodes >>

\* The end of the loops: the "Actual total" message and return nil.
GenComplete ==
    /\ pc = "loop"
    /\ ~HasNext
    /\ printedActual' = generatedCount
    /\ Return("", writer, phoneData, writeFailed)
    /\ UNCHANGED << phoneExists, printedEstimate >>
    /\ UNCHANGED << scanned, choice, configFile, middleCodes >>

\* One iteration of the loop of askToContinue and what main does with its
\* result: exit on y/Y, restart on n/N, ask again otherwise.
AskToContinue(answer) ==
    /\ pc = "ask"
    /\ scanned' = answer
    /\ LET quitChoice == TrimSpace(answer) IN
       IF quitChoice \in { <<"y">>, <<"Y">> }
       THEN /\ pc' = "exited"
            /\ lastOutput' = "Exiting program..."
       ELSE IF quitChoice \in { <<"n">>, <<"N">> }
       THEN /\ pc' = "select"
            /\ lastOutput' = "Restart"
       ELSE /\ pc' = "ask"
            /\ lastOutput' = "Invalid input, please enter y or n"
    /\ lastErr' = ""
    /\ UNCHANGED << choice, configFile, middleCodes, phoneFile, genLocals,
                    genReport >>

Next ==
    \/ \E option \in Choices, fault \in Faults, left \in FailedWriteLeaves :
           SelectConfig(option, fault, left)
    \/ \E option \in Choices, line \in DriverLines : SelectManual(option, line)
    \/ \E option \in Choices : SelectInvalid(option)
    \/ \E ok \in BOOLEAN : GenCreate(ok)
    \/ GenWrite
    \/ GenComplete
    \/ \E answer \in Answers : AskToContinue(answer)

Spec == Init /\ [][Next]_vars

\* The manual input path alone, over every line of up to MaxTokens tokens,
\* each entered at the first prompt.
NextInput ==
    \E option \in Choices, line \in ManualLines :
        /\ choice = <<>>
        /\ SelectManual(option, line)

SpecInput == Init /\ [][NextInput]_vars

\* The config path alone, over every content of config.json.
InitConfig == InitWith(ConfigFiles)

NextConfig ==
    \E option \in Choices, fault \in Faults, left \in FailedWriteLeaves :
        SelectConfig(option, fault, left)

SpecConfig == InitConfig /\ [][NextConfig]_vars

(* ------------------------------ properties ----------------------------- *)

\* A string of exactly four decimal digits.
IsFourDigits(s) == s \in [1..4 -> Digit]

\* The elements of seq at the indices in keep, in increasing index order.
Pick(seq, keep) ==
    [k \in 1..Cardinality(keep) |->
        seq[CHOOSE i \in keep : Cardinality({j \in keep : j <= i}) = k]]

\* The four decimal digits of n < 10000.
DigitSeq == <<"0", "1", "2", "3", "4", "5", "6", "7", "8", "9">>

FourDigitsOf(n) ==
    << DigitSeq[(n \div 1000) + 1], DigitSeq[((n \div 100) % 10) + 1],
       DigitSeq[((n \div 10) % 10) + 1], DigitSeq[(n % 10) + 1] >>

\* The Mobile, Unicom and Telecom prefixes, in that order.
OrderedPrefixes == crawledMobile \o crawledUnicom \o crawledTelecom

\* A call of generatePhoneNumbers that created the output file has returned
\* and no later call has started.
CallReturned == pc \notin {"create", "loop"} /\ printedEstimate # -1

NumLines == Cardinality({i \in DOMAIN phoneData : phoneData[i] = "\n"})

\* C1: a call of generatePhoneNumbers(M) in which no write failed has
\* written exactly 40 * |M| * SuffixCount lines (SuffixCount stands for the
\* code's 10000), and the count it printed at completion equals the
\* estimate it printed at the start.
C1_LineCount ==
    (CallReturned /\ ~writeFailed) =>
        /\ Len(middleCodes) > 0
        /\ NumLines = 40 * Len(middleCodes) * SuffixCount
        /\ printedEstimate = 40 * Len(middleCodes) * SuffixCount
        /\ printedActual = printedEstimate

C1_Witness ==
    /\ CallReturned
    /\ ~writeFailed
    /\ Len(middleCodes) = 4
    /\ printedActual = 40 * 4 * SuffixCount

\* C2: after a call with no failed write, line i of the file (from 0) is
\* prefix i div (|M| * SuffixCount), middle code (i div SuffixCount) mod |M|
\* and i mod SuffixCount padded to four digits, with the prefixes in
\* Mobile, Unicom, Telecom order; every line is 11 digits and a newline.
C2_LineOrder ==
    (CallReturned /\ ~writeFailed) =>
        LET m == Len(middleCodes)
            total == Len(OrderedPrefixes) * m * SuffixCount
        IN /\ Len(phoneData) = 12 * total
           /\ \A i \in 0..(total - 1) :
                 /\ SubSeq(phoneData, 12 * i + 1, 12 * i + 11) =
                        OrderedPrefixes[(i \div (m * SuffixCount)) + 1]
                        \o middleCodes[((i \div SuffixCount) % m) + 1]
                        \o FourDigitsOf(i % SuffixCount)
                 /\ phoneData[12 * i + 12] = "\n"

C2_Witness ==
    /\ CallReturned
    /\ ~writeFailed
    /\ middleCodes = << c0537, c0100 >>
    /\ Len(phoneData) = 12 * 40 * 2 * SuffixCount

\* C3: the middle codes handed to the generator contain no duplicate,
\* whichever method resolved them.
C3_NoDuplicates ==
    pc \in {"create", "loop"} =>
        \A i, j \in 1..Len(middleCodes) :
            i # j => middleCodes[i] # middleCodes[j]

\* The trimmed comma-separated tokens of a console line.
TokensOf(line) ==
    LET raw == Split(line) IN [i \in 1..Len(raw) |-> TrimSpace(raw[i])]

\* The tokens that are four digits, each at its first occurrence.
FirstValid(tokens) ==
    Pick(tokens, {i \in 1..Len(tokens) :
                     /\ IsFourDigits(tokens[i])
                     /\ \A j \in 1..(i - 1) : tokens[j] # tokens[i]})

RejectedTokens ==
    { <<"5", "3", "7">>, <<"0", "5", "a", "7">>, <<"0", "5", "3", "7", "7">>,
      <<>> }

\* C4: for a non-blank manual line, inputMiddleCodes returns exactly the
\* trimmed tokens that are four digits, each once, at its first occurrence
\* and in input order (an error when there is none); "0537,0100,0537, 0210"
\* yields 0537, 0100, 0210; "537", "05a7", "05377" and "" are never
\* returned.
C4_ManualInput ==
    (choice = <<"2">> /\ TrimSpace(scanned) # <<>>) =>
        LET expected == FirstValid(TokensOf(scanned)) IN
        /\ IF expected = <<>>
           THEN pc = "select" /\ lastOutput = "Input error"
           ELSE pc = "create" /\ middleCodes = expected
        /\ scanned = ExampleLine => middleCodes = << c0537, c0100, c0210 >>
        /\ pc = "create" =>
              \A i \in 1..Len(middleCodes) : middleCodes[i] \notin RejectedTokens

C4_Witness ==
    /\ choice = <<"2">>
    /\ scanned = ExampleLine
    /\ pc = "create"
    /\ middleCodes = << c0537, c0100, c0210 >>

\* C5: a malformed config.json on option 1, and a blank line or a line
\* without a valid token on option 2, are reported and lead back to the
\* option prompt with phonedict.txt untouched; the driver leaves the prompt
\* only for the generator, and only with a non-empty list of middle codes.
C5_ResolutionErrors ==
    [][ /\ (pc = "select" /\ choice' = <<"1">>
            /\ configFile.exists /\ ~configFile.syntaxOK) =>
               /\ lastOutput' = "Config file processing failed"
               /\ pc' = "select"
               /\ UNCHANGED phoneFile
        /\ (pc = "select" /\ choice' = <<"2">>
            /\ FirstValid(TokensOf(scanned')) = <<>>) =>
               /\ lastOutput' = "Input error"
               /\ pc' = "select"
               /\ UNCHANGED phoneFile
        /\ pc = "select" =>
               /\ pc' \in {"select", "create"}
               /\ UNCHANGED phoneFile
               /\ pc' = "create" => (lastErr' = "" /\ Len(middleCodes') > 0)
      ]_vars

C5_Witness ==
    /\ pc = "select"
    /\ lastOutput = "Config file processing failed"
    /\ lastErr = "failed to parse"
    /\ ~phoneExists

\* C6: a call of generatePhoneNumbers during which a write to the file
\* failed returns an error, and main does not print the success message.
C6_WriteFailureReturnsError ==
    (pc = "ask" /\ printedEstimate # -1 /\ writeFailed) =>
        /\ genErr # ""
        /\ lastOutput # "Phone numbers have been successfully exported"

\* C7: when a call that created the file returns, with or without an
\* error, it has flushed the writer and then closed the file, once each,
\* and no handle is open outside a running call.
C7_FlushThenClose ==
    /\ CallReturned => deferLog = << "writer.Flush", "file.Close" >>
    /\ openHandles = (IF pc = "loop" THEN 1 ELSE 0)

C7_Witness ==
    /\ pc = "ask"
    /\ genErr = "failed to write to file"
    /\ deferLog = << "writer.Flush", "file.Close" >>
    /\ openHandles = 0

YesAnswers == { <<"y">>, <<"Y">> }

NoAnswers == { <<"n">>, <<"N">> }

\* C8: the driver goes from resolution to generation to the exit prompt;
\* every generator run, failed or not, ends at the exit prompt; the
\* program exits only from that prompt on y/Y; n/N leads to the option
\* prompt; any other answer stays at the exit prompt, with no generator run.
C8_DriverLoop ==
    [][ /\ pc = "select" => pc' \in {"select", "create"}
        /\ pc = "create" => pc' \in {"create", "loop", "ask"}
        /\ pc = "loop" => pc' \in {"loop", "ask"}
        /\ pc = "exited" => pc' = "exited"
        /\ (pc = "ask" /\ scanned' # scanned) =>
               /\ TrimSpace(scanned') \in YesAnswers => pc' = "exited"
               /\ TrimSpace(scanned') \in NoAnswers => pc' = "select"
               /\ TrimSpace(scanned') \notin (YesAnswers \cup NoAnswers) =>
                      /\ pc' = "ask"
                      /\ lastOutput' = "Invalid input, please enter y or n"
                      /\ UNCHANGED phoneFile
        /\ (pc # "exited" /\ pc' = "exited") =>
               (pc = "ask" /\ TrimSpace(scanned') \in YesAnswers)
      ]_vars

C8_Witness ==
    /\ pc = "ask"
    /\ lastOutput = "Invalid input, please enter y or n"
    /\ genErr # ""

\* config.json holding exactly the four sample codes.
SampleCodes ==
    << <<"0", "5", "3", "7">>, <<"0", "1", "0", "0">>,
       <<"0", "2", "1", "0">>, <<"0", "7", "5", "5">> >>

SampleFile ==
    [exists |-> TRUE, syntaxOK |-> TRUE, top |-> "object",
     members |-> << [name |-> "middleCodes",
                     val |-> [t |-> "array",
                              elems |-> [i \in 1..4 |->
                                  [t |-> "string", s |-> SampleCodes[i],
                                   n |-> 0]]]] >>]

\* C9: a loadConfig that finds no config.json and succeeds creates it with
\* exactly the four sample codes and returns them; a loadConfig that reads
\* that file returns the same codes in the same order; an existing file is
\* never rewritten.
C9_CreateThenRead ==
    [][ (pc = "select" /\ choice' = <<"1">>) =>
          /\ (~configFile.exists /\ lastErr' = "") =>
                 /\ configFile' = SampleFile
                 /\ middleCodes' = SampleCodes
                 /\ pc' = "create"
          /\ (configFile = SampleFile /\ lastErr' = "") =>
                 /\ middleCodes' = SampleCodes
                 /\ pc' = "create"
          /\ configFile.exists => configFile' = configFile
      ]_vars

C9_Witness ==
    /\ pc = "create"
    /\ lastOutput = "Successfully read from config file"
    /\ configFile = SampleFile
    /\ middleCodes = SampleCodes
    /\ printedEstimate = 40 * 4 * SuffixCount

\* What option 1 resolves from the entries of middleCodes: those of four
\* digits, in order, or 0537 alone when there is none.
Resolved(entries) ==
    LET kept == Pick(entries, {i \in 1..Len(entries) : IsFourDigits(entries[i])})
    IN IF kept = <<>> THEN << <<"0", "5", "3", "7">> >> ELSE kept

\* The step is an option-1 iteration on an existing config.json that could
\* be statted and opened.
ReadsConfig ==
    /\ pc = "select"
    /\ choice' = <<"1">>
    /\ configFile.exists
    /\ lastErr' \notin {"failed to check status", "failed to open"}

\* config.json holds a JSON object whose middleCodes members are each null
\* or an array of strings and nulls.
DecodesAsConfig(file) ==
    /\ file.syntaxOK
    /\ file.top = "object"
    /\ \A k \in 1..Len(file.members) :
          file.members[k].name \in
              {"middleCodes", "MiddleCodes", "middlecodes", "MIDDLECODES"} =>
                 /\ file.members[k].val.t \in {"null", "array"}
                 /\ \A i \in 1..Len(file.members[k].val.elems) :
                       file.members[k].val.elems[i].t \in {"string", "null"}

\* C10 as stated: every config.json that is well-formed JSON resolves to
\* the four-digit entries of middleCodes, in order, or to 0537 alone.
C10_AnyJSON ==
    [][ (ReadsConfig /\ configFile.syntaxOK) =>
           /\ pc' = "create"
           /\ middleCodes' = Resolved(Decode(configFile).MiddleCodes)
      ]_vars

\* C10, amended: every config.json that decodes into the Config structure
\* resolves to the four-digit entries of middleCodes, in file order, the
\* others dropped, or to 0537 alone when there is none; the generator is
\* never handed an empty list.
C10_DecodableConfig ==
    [][ /\ (ReadsConfig /\ DecodesAsConfig(configFile)) =>
              /\ pc' = "create"
              /\ middleCodes' = Resolved(Decode(configFile).MiddleCodes)
        /\ (pc = "select" /\ pc' = "create") => Len(middleCodes') > 0
      ]_vars

C10_Witness ==
    /\ pc = "create"
    /\ lastOutput = "Successfully read from config file"
    /\ Len(configFile.members) = 1
    /\ Len(configFile.members[1].val.elems) = 3
    /\ middleCodes = << c0100 >>

====
